---- MODULE Spec2Model ----
(***************************************************************************)
(* Model of the QR symbol construction pipeline of backend/qr_generator.py *)
(* (class QRGenerator): version selection, grid allocation, function       *)
(* pattern stamping, byte-mode encoding, data placement and masking.       *)
(*                                                                         *)
(* A module of the grid is modelled as a BOOLEAN: TRUE is Dark (a truthy   *)
(* Python value: True or 1), FALSE is Light (False or 0).  Grid            *)
(* coordinates are the 0-based indices of the code.                        *)
(***************************************************************************)
EXTENDS Integers, Sequences, FiniteSets, TLC

VARIABLES data, error_correction, version, modules, module_count,
          pc, encoded_data, error_corrected_data, raised,
          request, image, svg, response, builds

\* what a caller of the renderers and of the service holds: the arguments
\* of the last call, the raster and vector results, the HTTP response, and
\* the handlers of requests that are in progress at the same time
render_vars == <<request, image, svg, response, builds>>

vars == <<data, error_correction, version, modules, module_count,
          pc, encoded_data, error_corrected_data, raised,
          request, image, svg, response, builds>>

----------------------------------------------------------------------------
(* Bounds of the model                                                     *)

\* payloads of the build pipeline have 0, LenStride, 2*LenStride, ...,
\* MaxStrides*LenStride characters (and HelloLen characters)
LenStride == 37
MaxStrides == 8
\* payloads of the version-selection harness have 0..MaxPayloadChars
\* one-byte characters, or 0..MaxWideChars multi-byte characters
MaxPayloadChars == 870
MaxWideChars == 290

----------------------------------------------------------------------------
(* Constants of the program                                                *)

None == <<>>

\* a name not bound yet: no call made, no result returned
Unset == [unset |-> TRUE]

\* the requests that can be in progress at the same time
RequestIds == {1, 2}

\* a handler that has not been entered: no payload, no generator
NoBuild == [started |-> FALSE, vcard_content |-> <<>>, qr |-> [pc |-> "none"]]

NoBuilds == [id \in RequestIds |-> NoBuild]

ErrorCorrectionLevel == {"L", "M", "Q", "H"}

MinVersion == 1
MaxVersion == 5
Versions == MinVersion..MaxVersion

version_info ==
  [v \in Versions |->
     CASE v = 1 -> [size |-> 21, data_capacity |-> [L |-> 152, M |-> 128, Q |-> 104, H |-> 72]]
       [] v = 2 -> [size |-> 25, data_capacity |-> [L |-> 272, M |-> 224, Q |-> 176, H |-> 128]]
       [] v = 3 -> [size |-> 29, data_capacity |-> [L |-> 440, M |-> 352, Q |-> 272, H |-> 208]]
       [] v = 4 -> [size |-> 33, data_capacity |-> [L |-> 640, M |-> 512, Q |-> 384, H |-> 288]]
       [] v = 5 -> [size |-> 37, data_capacity |-> [L |-> 864, M |-> 688, Q |-> 496, H |-> 368]]]

----------------------------------------------------------------------------
(* Payloads: a Python str is a sequence of code points                     *)

\* "Hello World"
HelloWorld == <<72, 101, 108, 108, 111, 32, 87, 111, 114, 108, 100>>
HelloLen == Len(HelloWorld)

PayloadKinds == {"hello", "latin", "euro", "emoji"}

\* the j-th character (1-based) of a payload of the given kind
CharAt(kind, j) ==
  CASE kind = "hello" -> HelloWorld[((j - 1) % HelloLen) + 1]
    [] kind = "latin" -> 233       \* U+00E9, 2 bytes in UTF-8
    [] kind = "euro"  -> 8364      \* U+20AC, 3 bytes in UTF-8
    [] kind = "emoji" -> 128512    \* U+1F600, 4 bytes in UTF-8

Payload(n, kind) == [j \in 1..n |-> CharAt(kind, j)]

----------------------------------------------------------------------------
(* Helpers                                                                 *)

\* for x in range(lo, hi + 1): st = Body(st, x)   -- applied in increasing
\* order of x, and abandoned once a stage record st has ok = FALSE (an
\* exception leaves the loop); the range is split in halves only to keep
\* the evaluation shallow
RECURSIVE FoldRange(_, _, _, _)
FoldRange(Body(_, _), st, lo, hi) ==
  IF ~st.ok \/ lo > hi THEN st
  ELSE IF lo = hi THEN Body(st, lo)
  ELSE LET mid == (lo + hi) \div 2
       IN  FoldRange(Body, FoldRange(Body, st, lo, mid), mid + 1, hi)

\* (x >> i) & 1
BitAt(x, i) == (x \div (2 ^ i)) % 2

\* str.encode('utf-8') of one code point
Utf8Char(cp) ==
  IF cp < 128 THEN <<cp>>
  ELSE IF cp < 2048 THEN <<192 + (cp \div 64), 128 + (cp % 64)>>
  ELSE IF cp < 65536 THEN
    <<224 + (cp \div 4096), 128 + ((cp \div 64) % 64), 128 + (cp % 64)>>
  ELSE
    <<240 + (cp \div 262144), 128 + ((cp \div 4096) % 64),
      128 + ((cp \div 64) % 64), 128 + (cp % 64)>>

\* the bytes of characters lo..hi of s, in order
RECURSIVE Utf8Range(_, _, _)
Utf8Range(s, lo, hi) ==
  IF lo > hi THEN <<>>
  ELSE IF lo = hi THEN Utf8Char(s[lo])
  ELSE LET mid == (lo + hi) \div 2
       IN  Utf8Range(s, lo, mid) \o Utf8Range(s, mid + 1, hi)

\* str.encode('utf-8'): the byte sequences of the characters, concatenated
Utf8Encode(s) == Utf8Range(s, 1, Len(s))

----------------------------------------------------------------------------
(* QRGenerator._optimize_version                                           *)

\* len(self.data.encode('utf-8')) with the character count in its place
data_length_chars(d) == Len(d)

\* data_length = len(self.data.encode('utf-8'))
data_length_of(d) == Len(Utf8Encode(d))

\* for version in range(from, 6): the first version whose capacity holds
\* data_length; version 5 when the loop ends without a hit
RECURSIVE optimize_version_loop(_, _, _)
optimize_version_loop(from, data_length, error_level) ==
  IF from >= 6 THEN 5
  ELSE IF from \in DOMAIN version_info
          /\ data_length <= version_info[from].data_capacity[error_level]
    THEN from
    ELSE optimize_version_loop(from + 1, data_length, error_level)

\* the version _optimize_version assigns to self.version
optimize_version(d, level) ==
  optimize_version_loop(1, data_length_of(d), level)

----------------------------------------------------------------------------
(* Grid access.  A stage works on a record [m, ok]: m is the grid and ok   *)
(* turns FALSE at the first list index out of range (IndexError).          *)

\* rows one module too long
NewGridLongRows(n) == [r \in 0..(n - 1) |-> [c \in 0..n |-> FALSE]]

\* [[False for _ in range(n)] for _ in range(n)]
NewGrid(n) == [r \in 0..(n - 1) |-> [c \in 0..(n - 1) |-> FALSE]]

\* a Python list index: negative indices count from the end
ListIndex(i, n) == IF i < 0 THEN i + n ELSE i

InRange(i, n) == ListIndex(i, n) \in 0..(n - 1)

\* self.modules[r][c] = v
SetModule(st, mc, r, c, v) ==
  IF ~st.ok THEN st
  ELSE IF InRange(r, mc) /\ InRange(c, mc)
    THEN [st EXCEPT !.m[ListIndex(r, mc)][ListIndex(c, mc)] = v]
    ELSE [st EXCEPT !.ok = FALSE]

\* truth value of an int bit stored in a module
Truthy(bit) == bit # 0

----------------------------------------------------------------------------
(* QRGenerator._is_function_module                                         *)

\* the function-module test without the bottom-left neighborhood
is_function_module_no_bottom_left(mc, v, row, col) ==
  IF (row < 9 /\ col < 9)
     \/ (row < 9 /\ col >= mc - 8)
    THEN TRUE
  ELSE IF row = 6 \/ col = 6
    THEN TRUE
  ELSE IF v > 1 /\ row = 4 * v + 9 /\ col = 8
    THEN TRUE
  ELSE FALSE

is_function_module(mc, v, row, col) ==
  IF (row < 9 /\ col < 9)
     \/ (row < 9 /\ col >= mc - 8)
     \/ (row >= mc - 8 /\ col < 9)
    THEN TRUE
  ELSE IF row = 6 \/ col = 6
    THEN TRUE
  ELSE IF v > 1 /\ row = 4 * v + 9 /\ col = 8
    THEN TRUE
  ELSE FALSE

----------------------------------------------------------------------------
(* Function patterns                                                       *)

\* positions = [(0, 0), (module_count - 7, 0), (0, module_count - 7)]
FinderPositions(mc) == << <<0, 0>>, <<mc - 7, 0>>, <<0, mc - 7>> >>

\* the condition of the finder loop body: outer ring or central 3x3
FinderDark(r, c) ==
  \/ (r = 0 \/ r = 6) /\ (0 <= c /\ c <= 6)
  \/ (c = 0 \/ c = 6) /\ (0 <= r /\ r <= 6)
  \/ (2 <= r /\ r <= 4 /\ 2 <= c /\ c <= 4)

place_finder_patterns(st0, mc) ==
  LET Cell(st, row, col, r, c) ==
        IF FinderDark(r, c)
          THEN IF 0 <= row + r /\ row + r < mc /\ 0 <= col + c /\ col + c < mc
                 THEN SetModule(st, mc, row + r, col + c, TRUE)
                 ELSE st
          ELSE st
      Pattern(st, p) ==
        LET row == FinderPositions(mc)[p][1]
            col == FinderPositions(mc)[p][2]
        IN  FoldRange(LAMBDA s1, r :
                        FoldRange(LAMBDA s2, c : Cell(s2, row, col, r, c),
                                  s1, 0, 6),
                      st, 0, 6)
  IN  FoldRange(Pattern, st0, 1, 3)

\* separators stamped Dark
place_separators_dark(st0, mc) ==
  LET Cell(st, row, col, r, c) ==
        IF row + r < mc /\ col + c < mc
          THEN IF r = 7 \/ c = 7
                 THEN SetModule(st, mc, row + r, col + c, TRUE)
                 ELSE st
          ELSE st
      Pattern(st, p) ==
        LET row == FinderPositions(mc)[p][1]
            col == FinderPositions(mc)[p][2]
        IN  FoldRange(LAMBDA s1, r :
                        FoldRange(LAMBDA s2, c : Cell(s2, row, col, r, c),
                                  s1, 0, 7),
                      st, 0, 7)
  IN  FoldRange(Pattern, st0, 1, 3)

place_separators(st0, mc) ==
  LET Cell(st, row, col, r, c) ==
        IF row + r < mc /\ col + c < mc
          THEN IF r = 7 \/ c = 7
                 THEN SetModule(st, mc, row + r, col + c, FALSE)
                 ELSE st
          ELSE st
      Pattern(st, p) ==
        LET row == FinderPositions(mc)[p][1]
            col == FinderPositions(mc)[p][2]
        IN  FoldRange(LAMBDA s1, r :
                        FoldRange(LAMBDA s2, c : Cell(s2, row, col, r, c),
                                  s1, 0, 7),
                      st, 0, 7)
  IN  FoldRange(Pattern, st0, 1, 3)

\* the timing loop over range(7, module_count - 7)
place_timing_patterns_wide(st0, mc) ==
  FoldRange(LAMBDA st, i :
              SetModule(SetModule(st, mc, 6, i, i % 2 = 0), mc, i, 6, i % 2 = 0),
            st0, 7, mc - 7 - 1)

place_timing_patterns(st0, mc) ==
  FoldRange(LAMBDA st, i :
              SetModule(SetModule(st, mc, 6, i, i % 2 = 0), mc, i, 6, i % 2 = 0),
            st0, 8, mc - 8 - 1)

\* no dark module in any version
place_dark_module_never(st0, mc, v) == st0

place_dark_module(st0, mc, v) ==
  IF mc > 21 THEN SetModule(st0, mc, 4 * v + 9, 8, TRUE) ELSE st0

\* error_level_bits
error_level_bits(level) ==
  CASE level = "L" -> 1
    [] level = "M" -> 0
    [] level = "Q" -> 3
    [] level = "H" -> 2

mask_pattern == 0

\* the level code shifted by two bits only
generate_format_info_shifted(level) == error_level_bits(level) * 4 + mask_pattern

\* (error_level_bits << 3) | mask_pattern, for a mask_pattern below 8
generate_format_info(level) == error_level_bits(level) * 8 + mask_pattern

place_format_info(st0, mc, level) ==
  LET format_info == generate_format_info(level)
      Step(st, i) ==
        LET bit == Truthy(BitAt(format_info, i))
        IN  IF i < 6 THEN
              LET s1 == IF 8 < mc /\ i < mc
                          THEN SetModule(st, mc, 8, i, bit) ELSE st
              IN  IF mc - 1 - i >= 0 /\ 8 < mc
                    THEN SetModule(s1, mc, mc - 1 - i, 8, bit) ELSE s1
            ELSE IF i < 8 THEN
              LET s1 == IF 8 < mc /\ i + 1 < mc
                          THEN SetModule(st, mc, 8, i + 1, bit) ELSE st
              IN  IF mc - 7 + i >= 0 /\ mc - 7 + i < mc /\ 8 < mc
                    THEN SetModule(s1, mc, mc - 7 + i, 8, bit) ELSE s1
            ELSE IF i < 9 THEN
              LET s1 == IF 7 < mc /\ 8 < mc
                          THEN SetModule(st, mc, 7, 8, bit) ELSE st
              IN  IF 8 < mc /\ mc - 8 >= 0
                    THEN SetModule(s1, mc, 8, mc - 8, bit) ELSE s1
            ELSE
              LET s1 == IF 14 - i >= 0 /\ 8 < mc
                          THEN SetModule(st, mc, 14 - i, 8, bit) ELSE st
              IN  IF 8 < mc /\ mc - 15 + i >= 0 /\ mc - 15 + i < mc
                    THEN SetModule(s1, mc, 8, mc - 15 + i, bit) ELSE s1
  IN  FoldRange(Step, st0, 0, 14)

\* the writes of _place_format_info in the order it makes them: the loop
\* of place_format_info with a log in place of the grid.  Each entry names
\* the bit index i, the module written and the branch that wrote it: the
\* first write of the iteration (top-left group) or the second (mirror)
place_format_info_writes(mc) ==
  LET Write(log, i, group, row, col) ==
        Append(log, [i |-> i, group |-> group, row |-> row, col |-> col])
      Step(st, i) ==
        IF i < 6 THEN
          LET s1 == IF 8 < mc /\ i < mc
                      THEN Write(st.log, i, "top_left", 8, i) ELSE st.log
          IN  [st EXCEPT !.log =
                 IF mc - 1 - i >= 0 /\ 8 < mc
                   THEN Write(s1, i, "mirror", mc - 1 - i, 8) ELSE s1]
        ELSE IF i < 8 THEN
          LET s1 == IF 8 < mc /\ i + 1 < mc
                      THEN Write(st.log, i, "top_left", 8, i + 1) ELSE st.log
          IN  [st EXCEPT !.log =
                 IF mc - 7 + i >= 0 /\ mc - 7 + i < mc /\ 8 < mc
                   THEN Write(s1, i, "mirror", mc - 7 + i, 8) ELSE s1]
        ELSE IF i < 9 THEN
          LET s1 == IF 7 < mc /\ 8 < mc
                      THEN Write(st.log, i, "top_left", 7, 8) ELSE st.log
          IN  [st EXCEPT !.log =
                 IF 8 < mc /\ mc - 8 >= 0
                   THEN Write(s1, i, "mirror", 8, mc - 8) ELSE s1]
        ELSE
          LET s1 == IF 14 - i >= 0 /\ 8 < mc
                      THEN Write(st.log, i, "top_left", 14 - i, 8) ELSE st.log
          IN  [st EXCEPT !.log =
                 IF 8 < mc /\ mc - 15 + i >= 0 /\ mc - 15 + i < mc
                   THEN Write(s1, i, "mirror", 8, mc - 15 + i) ELSE s1]
  IN  FoldRange(Step, [ok |-> TRUE, log |-> <<>>], 0, 14).log

----------------------------------------------------------------------------
(* QRGenerator._encode_data, _add_error_correction                         *)

\* the encoder with the bits of each payload byte least-significant first
encode_data_lsb_first(d) ==
  LET data_bytes == Utf8Encode(d)
      count == Len(data_bytes)
  IN  <<0, 1, 0, 0>>
      \o [k \in 1..8 |-> BitAt(count, 8 - k)]
      \o [k \in 1..(8 * count) |->
            BitAt(data_bytes[((k - 1) \div 8) + 1], (k - 1) % 8)]

\* mode indicator, 8 bits of count, then the 8 bits of each byte; every
\* field most-significant bit first (for i in range(7, -1, -1))
encode_data(d) ==
  LET data_bytes == Utf8Encode(d)
      count == Len(data_bytes)
  IN  <<0, 1, 0, 0>>
      \o [k \in 1..8 |-> BitAt(count, 8 - k)]
      \o [k \in 1..(8 * count) |->
            BitAt(data_bytes[((k - 1) \div 8) + 1], 7 - ((k - 1) % 8))]

add_error_correction(bits) == bits

----------------------------------------------------------------------------
(* QRGenerator._place_data                                                 *)
(* The stage record carries the locals bit_index and direction.            *)

\* the k-th value of range(module_count, 0, -2)
SweepColFromSize(mc, k) == mc - 2 * k

\* the k-th value (k = 0, 1, ...) of range(module_count - 1, 0, -2)
SweepCol(mc, k) == mc - 1 - 2 * k

\* len(range(module_count - 1, 0, -2))
SweepCount(mc) == IF mc - 1 > 0 THEN (mc - 1 + 1) \div 2 ELSE 0

\* the row visited at step i of a sweep
SweepRow(mc, direction, i) ==
  IF direction = -1 THEN mc - 1 - (i % mc) ELSE i % mc

place_data(st0, mc, v, bits) ==
  LET Visit(st, row, current_col) ==
        IF ~is_function_module(mc, v, row, current_col)
          THEN IF st.bit_index < Len(bits)
                 THEN [SetModule(st, mc, row, current_col,
                                 Truthy(bits[st.bit_index + 1]))
                         EXCEPT !.bit_index = st.bit_index + 1]
                 ELSE st
          ELSE st
      RowStep(st, col, i) ==
        LET s2 == FoldRange(LAMBDA s1, c :
                              Visit(s1, SweepRow(mc, s1.direction, i), col - c),
                            st, 0, 1)
        IN  [s2 EXCEPT !.direction = -1 * s2.direction]
      Sweep(st, k) ==
        LET col == IF SweepCol(mc, k) = 6
                     THEN SweepCol(mc, k) - 1 ELSE SweepCol(mc, k)
        IN  FoldRange(LAMBDA s1, i : RowStep(s1, col, i), st, 0, mc - 1)
      done == FoldRange(Sweep,
                        [m |-> st0.m, ok |-> st0.ok,
                         bit_index |-> 0, direction |-> -1],
                        0, SweepCount(mc) - 1)
  IN  [m |-> done.m, ok |-> done.ok]

\* the positions _place_data visits, in the order it visits them: the
\* loops of place_data with a log in place of the grid.  Each entry names
\* the sweep (index into the column range), the row step, the position,
\* and the index of the bit written there (-1 when nothing is written:
\* a function module, or the stream of nbits bits is exhausted)
place_data_visits(mc, v, nbits) ==
  LET Visit(st, k, i, row, current_col) ==
        LET placed == /\ ~is_function_module(mc, v, row, current_col)
                      /\ st.bit_index < nbits
        IN  [st EXCEPT
               !.visits = Append(@, [sweep |-> k, step |-> i,
                                     row |-> row, col |-> current_col,
                                     bit |-> IF placed THEN st.bit_index
                                                       ELSE -1]),
               !.bit_index = IF placed THEN @ + 1 ELSE @]
      RowStep(st, k, col, i) ==
        LET s2 == FoldRange(LAMBDA s1, c :
                              Visit(s1, k, i,
                                    SweepRow(mc, s1.direction, i), col - c),
                            st, 0, 1)
        IN  [s2 EXCEPT !.direction = -1 * s2.direction]
      Sweep(st, k) ==
        LET col == IF SweepCol(mc, k) = 6
                     THEN SweepCol(mc, k) - 1 ELSE SweepCol(mc, k)
        IN  FoldRange(LAMBDA s1, i : RowStep(s1, k, col, i), st, 0, mc - 1)
      done == FoldRange(Sweep,
                        [ok |-> TRUE, visits |-> <<>>,
                         bit_index |-> 0, direction |-> -1],
                        0, SweepCount(mc) - 1)
  IN  done.visits

----------------------------------------------------------------------------
(* QRGenerator._apply_mask                                                 *)

\* a mask that darkens the masked modules instead of toggling them
apply_mask_darken(st0, mc, v) ==
  LET Cell(st, row, col) ==
        IF ~is_function_module(mc, v, row, col)
          THEN IF (row + col) % 2 = 0
                 THEN SetModule(st, mc, row, col, TRUE)
                 ELSE st
          ELSE st
  IN  FoldRange(LAMBDA s1, row :
                  FoldRange(LAMBDA s2, col : Cell(s2, row, col),
                            s1, 0, mc - 1),
                st0, 0, mc - 1)

\* a mask applied to every module, function modules included
apply_mask_everywhere(st0, mc, v) ==
  LET Cell(st, row, col) ==
        IF (row + col) % 2 = 0
          THEN SetModule(st, mc, row, col, ~st.m[row][col])
          ELSE st
  IN  FoldRange(LAMBDA s1, row :
                  FoldRange(LAMBDA s2, col : Cell(s2, row, col),
                            s1, 0, mc - 1),
                st0, 0, mc - 1)

\* the checkerboard of the other parity
apply_mask_odd(st0, mc, v) ==
  LET Cell(st, row, col) ==
        IF ~is_function_module(mc, v, row, col)
          THEN IF (row + col) % 2 = 1
                 THEN SetModule(st, mc, row, col, ~st.m[row][col])
                 ELSE st
          ELSE st
  IN  FoldRange(LAMBDA s1, row :
                  FoldRange(LAMBDA s2, col : Cell(s2, row, col),
                            s1, 0, mc - 1),
                st0, 0, mc - 1)

apply_mask(st0, mc, v) ==
  LET Cell(st, row, col) ==
        IF ~is_function_module(mc, v, row, col)
          THEN IF (row + col) % 2 = 0
                 THEN SetModule(st, mc, row, col, ~st.m[row][col])
                 ELSE st
          ELSE st
  IN  FoldRange(LAMBDA s1, row :
                  FoldRange(LAMBDA s2, col : Cell(s2, row, col),
                            s1, 0, mc - 1),
                st0, 0, mc - 1)

----------------------------------------------------------------------------
(* Renderers: create_qr_image and create_qr_svg.  A result is modelled by  *)
(* what was drawn on the white canvas: the sequence of drawing calls (of   *)
(* SVG elements), each with its primitive, its module position and its     *)
(* fill colour, and for the raster image the logo pasted on top, if any.   *)

\* the strings ImageColor.getrgb of Pillow parses among the colours of the
\* model; on any other string it raises ValueError
PilColors == {"#000000", "#ff0000"}

Colors == PilColors \cup {"invalid-color"}

Shapes == {"square", "circle", "rounded"}

ShapeNames == Shapes \cup {"invalid-shape"}

\* a logo argument: None, the empty string, or a string of logo data, with
\* or without a "data:...," header; mode is the mode of the decoded image
\* and fails names the first logo step that raises on this string
NoLogo == [text |-> "none", comma |-> FALSE, mode |-> "RGB", fails |-> "none"]

EmptyLogo == [text |-> "empty", comma |-> FALSE, mode |-> "RGB", fails |-> "none"]

LogoData(comma, mode, fails) ==
  [text |-> "data", comma |-> comma, mode |-> mode, fails |-> fails]

Logos ==
  {NoLogo, EmptyLogo,
   LogoData(TRUE, "RGBA", "none"), LogoData(FALSE, "RGB", "none"),
   LogoData(FALSE, "RGB", "decode"), LogoData(TRUE, "RGBA", "decode"),
   LogoData(TRUE, "RGBA", "open"), LogoData(TRUE, "RGB", "resize"),
   LogoData(FALSE, "RGBA", "paste")}

\* logo_size: int = 30
default_logo_size == 30

\* size = 512
size == 512

\* the concatenation of F(lo), ..., F(hi): the items a loop over lo..hi
\* appends, in order
RECURSIVE ConcatRange(_, _, _)
ConcatRange(F(_), lo, hi) ==
  IF lo > hi THEN <<>>
  ELSE IF lo = hi THEN F(lo)
  ELSE LET mid == (lo + hi) \div 2
       IN  ConcatRange(F, lo, mid) \o ConcatRange(F, mid + 1, hi)

\* QRGenerator.is_dark
is_dark(g, mc, row, col) ==
  IF 0 <= row /\ row < mc /\ 0 <= col /\ col < mc
    THEN g[row][col]
    ELSE FALSE

\* create_qr_image: the colour check, without the fallback
image_color_unchecked(color) == color

\* create_qr_image: the colour check
image_color(color) ==
  IF color \in PilColors THEN color ELSE "#000000"

\* create_qr_image: the logo block with the try only around the decoding
add_logo_decode_guarded(logo, logo_size) ==
  IF logo.text # "data" THEN [pasted |-> FALSE, raised |-> "none"]
  ELSE IF logo.fails = "decode" THEN [pasted |-> FALSE, raised |-> "none"]
  ELSE IF logo.fails # "none" THEN [pasted |-> FALSE, raised |-> logo.fails]
  ELSE [pasted |-> TRUE, raised |-> "none"]

\* create_qr_image: the logo block.  A step that raises leaves the canvas
\* as it was and the except clause swallows the exception
add_logo(logo, logo_size) ==
  IF logo.text # "data" THEN [pasted |-> FALSE, raised |-> "none"]
  ELSE IF logo.fails # "none" THEN [pasted |-> FALSE, raised |-> "none"]
  ELSE LET logo_size_px == (size * logo_size) \div 100
           logo_x == (size - logo_size_px) \div 2
           logo_y == (size - logo_size_px) \div 2
       IN  [pasted |-> TRUE, raised |-> "none",
            from_header |-> logo.comma,
            logo_size_px |-> logo_size_px,
            logo_x |-> logo_x, logo_y |-> logo_y,
            mask |-> logo.mode = "RGBA"]

\* the finder test of create_qr_image with the neighborhoods of
\* _is_function_module in place of the 7x7 footprints
image_is_finder_wide(mc, row, col) ==
  \/ row < 9 /\ col < 9
  \/ row < 9 /\ col >= mc - 8
  \/ row >= mc - 8 /\ col < 9

\* create_qr_image: is_finder
image_is_finder(mc, row, col) ==
  \/ row < 7 /\ col < 7
  \/ row < 7 /\ col >= mc - 7
  \/ row >= mc - 7 /\ col < 7

\* create_qr_image: the shape dispatch, raising on an unknown shape
image_draw_strict(shape) ==
  IF shape = "circle" THEN "ellipse"
  ELSE IF shape = "rounded" THEN "rounded_rectangle"
  ELSE IF shape = "square" THEN "rectangle"
  ELSE "ValueError"

\* create_qr_image: the shape dispatch, the ImageDraw call made
image_draw(shape) ==
  IF shape = "circle" THEN "ellipse"
  ELSE IF shape = "rounded" THEN "rounded_rectangle"
  ELSE "rectangle"

create_qr_image(g, mc, color, marker_shape, dot_shape, logo, logo_size) ==
  LET fill == image_color(color)
      Module(row, col) ==
        IF is_dark(g, mc, row, col)
          THEN LET shape == IF image_is_finder(mc, row, col)
                              THEN marker_shape ELSE dot_shape
               IN  <<[op |-> image_draw(shape), row |-> row, col |-> col,
                      fill |-> fill]>>
          ELSE <<>>
      draws == ConcatRange(LAMBDA row :
                             ConcatRange(LAMBDA col : Module(row, col),
                                         0, mc - 1),
                           0, mc - 1)
      logo_result == add_logo(logo, logo_size)
      failed == \/ logo_result.raised # "none"
                \/ \E i \in 1..Len(draws) : draws[i].op = "ValueError"
  IN  IF failed
        THEN [raised |-> TRUE]
        ELSE [raised |-> FALSE, prefix |-> "data:image/png;base64,",
              canvas |-> size, draws |-> draws,
              logo |-> [logo_result EXCEPT !.raised = "none"]]

\* create_qr_svg: the colour check
svg_color(color) ==
  IF color \in PilColors THEN color ELSE "#000000"

\* create_qr_svg: is_finder
svg_is_finder(mc, row, col) ==
  \/ row < 7 /\ col < 7
  \/ row < 7 /\ col >= mc - 7
  \/ row >= mc - 7 /\ col < 7

\* create_qr_svg: the shape dispatch with the last two branches exchanged
svg_element_swapped(shape) ==
  IF shape = "circle" THEN "circle"
  ELSE IF shape = "rounded" THEN "rect"
  ELSE "rect rx"

\* create_qr_svg: the shape dispatch, the element appended
svg_element(shape) ==
  IF shape = "circle" THEN "circle"
  ELSE IF shape = "rounded" THEN "rect rx"
  ELSE "rect"

create_qr_svg(g, mc, color, marker_shape, dot_shape) ==
  LET fill == svg_color(color)
      Module(row, col) ==
        IF is_dark(g, mc, row, col)
          THEN LET shape == IF svg_is_finder(mc, row, col)
                              THEN marker_shape ELSE dot_shape
               IN  <<[op |-> svg_element(shape), row |-> row, col |-> col,
                      fill |-> fill]>>
          ELSE <<>>
      elements == ConcatRange(LAMBDA row :
                                ConcatRange(LAMBDA col : Module(row, col),
                                            0, mc - 1),
                              0, mc - 1)
  IN  [raised |-> FALSE, canvas |-> size, draws |-> elements]

----------------------------------------------------------------------------
(* generate_vcard: the pieces of the f-string template, as code points     *)

\* "BEGIN:VCARD\nVERSION:3.0\nFN:"
VcardBegin ==
  <<66, 69, 71, 73, 78, 58, 86, 67, 65, 82, 68, 10, 86, 69, 82, 83, 73,
    79, 78, 58, 51, 46, 48, 10, 70, 78, 58>>

\* "\nTEL:"
VcardTel ==
  <<10, 84, 69, 76, 58>>

\* "\nEMAIL:"
VcardEmail ==
  <<10, 69, 77, 65, 73, 76, 58>>

\* "\nORG:"
VcardOrg ==
  <<10, 79, 82, 71, 58>>

\* "\nTITLE:"
VcardTitle ==
  <<10, 84, 73, 84, 76, 69, 58>>

\* "\nURL;TYPE=WORK:"
VcardUrlWork ==
  <<10, 85, 82, 76, 59, 84, 89, 80, 69, 61, 87, 79, 82, 75, 58>>

\* "\nURL;TYPE=HOME:"
VcardUrlHome ==
  <<10, 85, 82, 76, 59, 84, 89, 80, 69, 61, 72, 79, 77, 69, 58>>

\* "\nEND:VCARD"
VcardEnd ==
  <<10, 69, 78, 68, 58, 86, 67, 65, 82, 68>>

\* generate_vcard returning the empty string for a contact without any field
generate_vcard_blank(name, phone, email, company, title, url_work, url_home) ==
  IF name \o phone \o email \o company \o title \o url_work \o url_home = <<>>
    THEN <<>>
    ELSE VcardBegin \o name \o VcardTel \o phone \o VcardEmail \o email
           \o VcardOrg \o company \o VcardTitle \o title
           \o VcardUrlWork \o url_work \o VcardUrlHome \o url_home \o VcardEnd

generate_vcard(name, phone, email, company, title, url_work, url_home) ==
  VcardBegin \o name \o VcardTel \o phone \o VcardEmail \o email
    \o VcardOrg \o company \o VcardTitle \o title
    \o VcardUrlWork \o url_work \o VcardUrlHome \o url_home \o VcardEnd

----------------------------------------------------------------------------
(* State machine: one generator, driven through add_data and make.  pc is  *)
(* the position inside make(): the name of the next stage to run, "idle"   *)
(* when no call has been made since add_data, "done" after a normal return *)
(* and "failed" after an exception.                                        *)

Stages == {"masked_twice", "idle", "optimize_version", "allocate", "finder_patterns",
           "separators", "timing_patterns", "dark_module", "format_info",
           "encode_data", "error_correction", "place_data", "apply_mask",
           "done", "failed"}

PipelineLens == {i * LenStride : i \in 0..MaxStrides} \cup {HelloLen}

PipelinePayloads == {Payload(n, k) : n \in PipelineLens, k \in PayloadKinds}

HarnessPayloads ==
  {Payload(n, "hello") : n \in 0..MaxPayloadChars}
  \cup {Payload(n, k) : n \in 0..MaxWideChars, k \in PayloadKinds}

\* QRGenerator.__init__
Init ==
  /\ version \in Versions
  /\ error_correction \in ErrorCorrectionLevel
  /\ modules = None
  /\ module_count = 0
  /\ data = <<>>
  /\ pc = "idle"
  /\ encoded_data = <<>>
  /\ error_corrected_data = <<>>
  /\ raised = "none"
  /\ request = Unset
  /\ image = Unset
  /\ svg = Unset
  /\ response = Unset
  /\ builds = NoBuilds

\* QRGenerator.add_data, between two calls of make
add_data(d) ==
  /\ pc \in {"idle", "done", "failed"}
  /\ data' = d
  /\ pc' = "idle"
  /\ raised' = "none"
  /\ UNCHANGED <<error_correction, version, modules, module_count,
                 encoded_data, error_corrected_data>>
  /\ UNCHANGED render_vars

AddData == \E d \in PipelinePayloads : add_data(d)

\* make() without its emptiness test
MakeStartUnchecked ==
  /\ pc = "idle"
  /\ raised' = "none"
  /\ pc' = "optimize_version"
  /\ encoded_data' = <<>>
  /\ error_corrected_data' = <<>>
  /\ UNCHANGED <<data, error_correction, version, modules, module_count>>
  /\ UNCHANGED render_vars

\* make(): the emptiness test
MakeStart ==
  /\ pc = "idle"
  /\ IF Len(data) = 0
       THEN /\ raised' = "ValueError: No data to encode"
            /\ pc' = "failed"
       ELSE /\ raised' = "none"
            /\ pc' = "optimize_version"
  /\ encoded_data' = <<>>
  /\ error_corrected_data' = <<>>
  /\ UNCHANGED <<data, error_correction, version, modules, module_count>>
  /\ UNCHANGED render_vars

OptimizeVersion ==
  /\ pc = "optimize_version"
  /\ version' = optimize_version(data, error_correction)
  /\ pc' = "allocate"
  /\ UNCHANGED <<data, error_correction, modules, module_count,
                 encoded_data, error_corrected_data, raised>>
  /\ UNCHANGED render_vars

Allocate ==
  /\ pc = "allocate"
  /\ module_count' = version_info[version].size
  /\ modules' = NewGrid(version_info[version].size)
  /\ pc' = "finder_patterns"
  /\ UNCHANGED <<data, error_correction, version,
                 encoded_data, error_corrected_data, raised>>
  /\ UNCHANGED render_vars

\* a stamping stage: the grid it leaves, and IndexError if it left the grid
GridStage(at, result, next) ==
  /\ pc = at
  /\ modules' = result.m
  /\ IF result.ok
       THEN pc' = next /\ raised' = raised
       ELSE pc' = "failed" /\ raised' = "IndexError"
  /\ UNCHANGED <<data, error_correction, version, module_count,
                 encoded_data, error_corrected_data>>
  /\ UNCHANGED render_vars

Current == [m |-> modules, ok |-> TRUE]

PlaceFinderPatterns ==
  GridStage("finder_patterns",
            place_finder_patterns(Current, module_count), "separators")

PlaceSeparators ==
  GridStage("separators",
            place_separators(Current, module_count), "timing_patterns")

PlaceTimingPatterns ==
  GridStage("timing_patterns",
            place_timing_patterns(Current, module_count), "dark_module")

PlaceDarkModule ==
  GridStage("dark_module",
            place_dark_module(Current, module_count, version), "format_info")

PlaceFormatInfo ==
  GridStage("format_info",
            place_format_info(Current, module_count, error_correction),
            "encode_data")

EncodeData ==
  /\ pc = "encode_data"
  /\ encoded_data' = encode_data(data)
  /\ pc' = "error_correction"
  /\ UNCHANGED <<data, error_correction, version, modules, module_count,
                 error_corrected_data, raised>>
  /\ UNCHANGED render_vars

AddErrorCorrection ==
  /\ pc = "error_correction"
  /\ error_corrected_data' = add_error_correction(encoded_data)
  /\ pc' = "place_data"
  /\ UNCHANGED <<data, error_correction, version, modules, module_count,
                 encoded_data, raised>>
  /\ UNCHANGED render_vars

\* make() returning right after the placement
PlaceDataUnmasked ==
  GridStage("place_data",
            place_data(Current, module_count, version, error_corrected_data),
            "done")

PlaceData ==
  GridStage("place_data",
            place_data(Current, module_count, version, error_corrected_data),
            "apply_mask")

ApplyMask ==
  GridStage("apply_mask",
            apply_mask(Current, module_count, version), "done")

\* _apply_mask called two times in a row on the grid of a build, by a
\* caller that drives the stages itself
ApplyMaskTwice ==
  /\ pc \in {"finder_patterns", "separators", "timing_patterns",
             "dark_module", "format_info", "encode_data",
             "error_correction", "place_data", "apply_mask", "done"}
  /\ modules' = apply_mask(apply_mask(Current, module_count, version),
                           module_count, version).m
  /\ pc' = "masked_twice"
  /\ UNCHANGED <<data, error_correction, version, module_count,
                 encoded_data, error_corrected_data, raised>>
  /\ UNCHANGED render_vars

\* make() as one function of the payload and the level: the stages in the
\* order make() calls them
make(d, level) ==
  LET v == optimize_version(d, level)
      mc == version_info[v].size
      s0 == [m |-> NewGrid(mc), ok |-> TRUE]
      s1 == place_finder_patterns(s0, mc)
      s2 == place_separators(s1, mc)
      s3 == place_timing_patterns(s2, mc)
      s4 == place_dark_module(s3, mc, v)
      s5 == place_format_info(s4, mc, level)
      bits == add_error_correction(encode_data(d))
      s6 == place_data(s5, mc, v, bits)
      s7 == apply_mask(s6, mc, v)
  IN  [version |-> v, module_count |-> mc, modules |-> s7.m, ok |-> s7.ok]

Next ==
  \/ AddData
  \/ MakeStart
  \/ OptimizeVersion
  \/ Allocate
  \/ PlaceFinderPatterns
  \/ PlaceSeparators
  \/ PlaceTimingPatterns
  \/ PlaceDarkModule
  \/ PlaceFormatInfo
  \/ EncodeData
  \/ AddErrorCorrection
  \/ PlaceData
  \/ ApplyMask

Spec == Init /\ [][Next]_vars

\* version selection alone, over every payload length up to the bounds:
\* a generator that was constructed and given its payload
InitVersion ==
  /\ version \in Versions
  /\ error_correction \in ErrorCorrectionLevel
  /\ modules = None
  /\ module_count = 0
  /\ data \in HarnessPayloads
  /\ pc = "idle"
  /\ encoded_data = <<>>
  /\ error_corrected_data = <<>>
  /\ raised = "none"
  /\ request = Unset
  /\ image = Unset
  /\ svg = Unset
  /\ response = Unset
  /\ builds = NoBuilds

NextVersion ==
  \/ MakeStart
  \/ OptimizeVersion

SpecVersion == InitVersion /\ [][NextVersion]_vars

\* the build pipeline, and double masking of any grid it produces
NextMask ==
  \/ Next
  \/ ApplyMaskTwice

SpecMask == Init /\ [][NextMask]_vars

generator_vars == <<data, error_correction, version, modules, module_count,
                    pc, encoded_data, error_corrected_data, raised>>

\* the arguments a caller passes to the renderers
RenderArgs ==
  [color : Colors, marker_shape : ShapeNames, dot_shape : ShapeNames,
   logo_base64 : Logos, logo_size : {default_logo_size}]

\* payloads of the rendered symbols: versions 1, 2 and 5 at level H
RenderPayloads ==
  {HelloWorld, Payload(2 * LenStride, "hello"),
   Payload(MaxStrides * LenStride, "hello")}

\* a caller that renders: QRGenerator(version=1, error_correction=H)
InitRender ==
  /\ Init
  /\ version = 1
  /\ error_correction = "H"

\* add_data on the fresh generator
AddRenderData ==
  /\ Len(data) = 0
  /\ \E d \in RenderPayloads : add_data(d)

\* create_qr_image called on the finished symbol
CreateQrImage ==
  /\ pc = "done"
  /\ request = Unset
  /\ \E args \in RenderArgs :
       /\ request' = args
       /\ image' = create_qr_image(modules, module_count, args.color,
                                   args.marker_shape, args.dot_shape,
                                   args.logo_base64, args.logo_size)
  /\ UNCHANGED <<generator_vars, svg, response, builds>>

\* create_qr_svg called next, with the same colour and shapes
CreateQrSvg ==
  /\ pc = "done"
  /\ request # Unset
  /\ svg = Unset
  /\ svg' = create_qr_svg(modules, module_count, request.color,
                          request.marker_shape, request.dot_shape)
  /\ UNCHANGED <<generator_vars, request, image, response, builds>>

NextRender ==
  \/ AddRenderData
  \/ MakeStart
  \/ OptimizeVersion
  \/ Allocate
  \/ PlaceFinderPatterns
  \/ PlaceSeparators
  \/ PlaceTimingPatterns
  \/ PlaceDarkModule
  \/ PlaceFormatInfo
  \/ EncodeData
  \/ AddErrorCorrection
  \/ PlaceData
  \/ ApplyMask
  \/ CreateQrImage
  \/ CreateQrSvg

SpecRender == InitRender /\ [][NextRender]_vars

----------------------------------------------------------------------------
(* The service: POST /qr-code and POST /qr-code-svg of backend/server.py.  *)
(* A request is the parsed QRCodeRequest together with its endpoint; each  *)
(* handler builds its own generator, which the generator variables show    *)
(* until the next request arrives.                                         *)

\* "Test User"
TestUser ==
  <<84, 101, 115, 116, 32, 85, 115, 101, 114>>

\* "+33 1 23 45 67 89"
TestPhone ==
  <<43, 51, 51, 32, 49, 32, 50, 51, 32, 52, 53, 32, 54, 55, 32, 56, 57>>

\* "test@example.com"
TestEmail ==
  <<116, 101, 115, 116, 64, 101, 120, 97, 109, 112, 108, 101, 46, 99, 111,
    109>>

\* "Test Company"
TestCompany ==
  <<84, 101, 115, 116, 32, 67, 111, 109, 112, 97, 110, 121>>

\* "Test Title"
TestTitle ==
  <<84, 101, 115, 116, 32, 84, 105, 116, 108, 101>>

\* "https://work.com"
TestUrlWork ==
  <<104, 116, 116, 112, 115, 58, 47, 47, 119, 111, 114, 107, 46, 99, 111,
    109>>

\* "https://home.com"
TestUrlHome ==
  <<104, 116, 116, 112, 115, 58, 47, 47, 104, 111, 109, 101, 46, 99, 111,
    109>>

Contact(name, phone, email, company, title, url_work, url_home) ==
  [name |-> name, phone |-> phone, email |-> email, company |-> company,
   title |-> title, url_work |-> url_work, url_home |-> url_home]

\* the defaults of QRCodeRequest: every field the empty string
EmptyContact == Contact(<<>>, <<>>, <<>>, <<>>, <<>>, <<>>, <<>>)

NameOnlyContact == Contact(TestUser, <<>>, <<>>, <<>>, <<>>, <<>>, <<>>)

FullContact ==
  Contact(TestUser, TestPhone, TestEmail, TestCompany, TestTitle,
          TestUrlWork, TestUrlHome)

\* a contact whose vCard is longer than the largest capacity at level H
LongContact ==
  Contact(TestUser, <<>>, <<>>, Payload(MaxStrides * LenStride, "hello"),
          <<>>, <<>>, <<>>)

Contacts == {EmptyContact, NameOnlyContact, FullContact, LongContact}

Endpoints == {"/qr-code", "/qr-code-svg"}

QRCodeRequest(endpoint, contact, color, marker_shape, dot_shape, logo) ==
  [endpoint |-> endpoint, name |-> contact.name, phone |-> contact.phone,
   email |-> contact.email, company |-> contact.company,
   title |-> contact.title, url_work |-> contact.url_work,
   url_home |-> contact.url_home, color |-> color,
   marker_shape |-> marker_shape, dot_shape |-> dot_shape,
   logo_base64 |-> logo, logo_size |-> default_logo_size]

\* the requests of the model: every pair of shape names for one contact,
\* and every contact with every colour and three logo arguments
Requests ==
  {QRCodeRequest(e, NameOnlyContact, "#000000", m, d, NoLogo) :
     e \in Endpoints, m \in ShapeNames, d \in ShapeNames}
  \cup
  {QRCodeRequest(e, c, col, "square", "square", l) :
     e \in Endpoints, c \in Contacts, col \in Colors,
     l \in {NoLogo, LogoData(TRUE, "RGBA", "none"),
            LogoData(FALSE, "RGB", "decode")}}

\* a request arrives; no generator of an earlier request is alive
ReceiveRequest ==
  /\ request = Unset \/ response # Unset
  /\ request' \in Requests
  /\ response' = Unset
  /\ image' = Unset
  /\ svg' = Unset
  /\ builds' = builds
  /\ version' = 1
  /\ error_correction' = "H"
  /\ modules' = None
  /\ module_count' = 0
  /\ data' = <<>>
  /\ pc' = "idle"
  /\ encoded_data' = <<>>
  /\ error_corrected_data' = <<>>
  /\ raised' = "none"

\* the end of a handler: the response for the payload, the generator qr
\* that make() left and the result of the renderer call, or the HTTP 500
\* of the except clause; field is the name of the result in the response
Respond(field, vcard_content, qr, result) ==
  LET empty == Len(vcard_content) = 0
      built == ~empty /\ qr.ok
      exception == IF empty THEN "ValueError: No data to encode"
                   ELSE IF ~qr.ok THEN "IndexError"
                   ELSE IF result.raised THEN "renderer"
                   ELSE "none"
  IN  /\ data' = vcard_content
      /\ error_correction' = "H"
      /\ version' = IF empty THEN 1 ELSE qr.version
      /\ module_count' = IF empty THEN 0 ELSE qr.module_count
      /\ modules' = IF empty THEN None ELSE qr.modules
      /\ encoded_data' = IF empty THEN <<>> ELSE encode_data(vcard_content)
      /\ error_corrected_data' =
           IF empty THEN <<>>
           ELSE add_error_correction(encode_data(vcard_content))
      /\ pc' = IF built THEN "done" ELSE "failed"
      /\ raised' = IF built THEN "none" ELSE exception
      /\ image' = IF exception = "none" /\ field = "qr_image_base64"
                    THEN result ELSE Unset
      /\ svg' = IF exception = "none" /\ field = "svg_content"
                  THEN result ELSE Unset
      /\ response' =
           IF exception = "none"
             THEN [status_code |-> 200, body |-> field,
                   content |-> result, vcard_content |-> vcard_content]
             ELSE [status_code |-> 500, detail |-> exception]

\* the renderer call of a handler on the generator qr
Render(field, vcard_content, qr) ==
  Respond(field, vcard_content, qr,
          IF field = "qr_image_base64"
            THEN create_qr_image(qr.modules, qr.module_count,
                                 request.color, request.marker_shape,
                                 request.dot_shape, request.logo_base64,
                                 request.logo_size)
            ELSE create_qr_svg(qr.modules, qr.module_count,
                               request.color, request.marker_shape,
                               request.dot_shape))

\* QRGenerator(version=1, error_correction=H), add_data, make
Build(field, vcard_content) ==
  Render(field, vcard_content, make(vcard_content, "H"))

\* a handler, from generate_vcard to the response
Handle(endpoint, field) ==
  /\ request # Unset
  /\ response = Unset
  /\ request.endpoint = endpoint
  /\ Build(field,
           generate_vcard(request.name, request.phone, request.email,
                          request.company, request.title,
                          request.url_work, request.url_home))
  /\ UNCHANGED <<request, builds>>

\* generate_qr_code
GenerateQrCode == Handle("/qr-code", "qr_image_base64")

\* generate_qr_code_svg
GenerateQrCodeSvg == Handle("/qr-code-svg", "svg_content")

NextServer ==
  \/ ReceiveRequest
  \/ GenerateQrCode
  \/ GenerateQrCodeSvg

SpecServer == InitRender /\ [][NextServer]_vars

----------------------------------------------------------------------------
(* Two requests in progress at the same time.  Each handler has its own    *)
(* payload and its own generator (a record with the fields of QRGenerator) *)
(* and the builds advance one stage at a time, in any order.               *)

\* QRGenerator(version=1, error_correction=H) followed by add_data(d)
new_generator(d) ==
  [data |-> d, error_correction |-> "H", version |-> 1, modules |-> None,
   module_count |-> 0, pc |-> "idle", encoded_data |-> <<>>,
   error_corrected_data |-> <<>>, raised |-> "none"]

\* a stamping stage of the generator g
grid_stage(g, result, next) ==
  IF result.ok
    THEN [g EXCEPT !.modules = result.m, !.pc = next]
    ELSE [g EXCEPT !.modules = result.m, !.pc = "failed",
                   !.raised = "IndexError"]

\* the next stage of make() on the generator g
make_step(g) ==
  LET cur == [m |-> g.modules, ok |-> TRUE]
  IN  CASE g.pc = "idle" ->
             IF Len(g.data) = 0
               THEN [g EXCEPT !.pc = "failed",
                              !.raised = "ValueError: No data to encode"]
               ELSE [g EXCEPT !.pc = "optimize_version"]
        [] g.pc = "optimize_version" ->
             [g EXCEPT !.version = optimize_version(g.data, g.error_correction),
                       !.pc = "allocate"]
        [] g.pc = "allocate" ->
             [g EXCEPT !.module_count = version_info[g.version].size,
                       !.modules = NewGrid(version_info[g.version].size),
                       !.pc = "finder_patterns"]
        [] g.pc = "finder_patterns" ->
             grid_stage(g, place_finder_patterns(cur, g.module_count),
                        "separators")
        [] g.pc = "separators" ->
             grid_stage(g, place_separators(cur, g.module_count),
                        "timing_patterns")
        [] g.pc = "timing_patterns" ->
             grid_stage(g, place_timing_patterns(cur, g.module_count),
                        "dark_module")
        [] g.pc = "dark_module" ->
             grid_stage(g, place_dark_module(cur, g.module_count, g.version),
                        "format_info")
        [] g.pc = "format_info" ->
             grid_stage(g, place_format_info(cur, g.module_count,
                                             g.error_correction),
                        "encode_data")
        [] g.pc = "encode_data" ->
             [g EXCEPT !.encoded_data = encode_data(g.data),
                       !.pc = "error_correction"]
        [] g.pc = "error_correction" ->
             [g EXCEPT !.error_corrected_data =
                         add_error_correction(g.encoded_data),
                       !.pc = "place_data"]
        [] g.pc = "place_data" ->
             grid_stage(g, place_data(cur, g.module_count, g.version,
                                      g.error_corrected_data),
                        "apply_mask")
        [] g.pc = "apply_mask" ->
             grid_stage(g, apply_mask(cur, g.module_count, g.version), "done")

\* one generator object that every handler uses
store_generator_shared(bs, id, g) ==
  [i \in DOMAIN bs |-> [bs[i] EXCEPT !.qr = g]]

\* qr = ...: the generator is a local name of the handler of request id
store_generator(bs, id, g) == [bs EXCEPT ![id].qr = g]

\* the contacts of the concurrent requests
ConcurrentContacts == {EmptyContact, NameOnlyContact, FullContact}

\* a handler is entered: generate_vcard, the generator, add_data
StartRequest(id) ==
  /\ ~builds[id].started
  /\ \E c \in ConcurrentContacts :
       LET v == generate_vcard(c.name, c.phone, c.email, c.company, c.title,
                               c.url_work, c.url_home)
       IN  builds' = store_generator(
                       [builds EXCEPT ![id].started = TRUE,
                                      ![id].vcard_content = v],
                       id, new_generator(v))
  /\ UNCHANGED <<generator_vars, request, image, svg, response>>

\* the build of a handler advances by one stage
MakeStep(id) ==
  /\ builds[id].started
  /\ builds[id].qr.pc \notin {"none", "done", "failed"}
  /\ builds' = store_generator(builds, id, make_step(builds[id].qr))
  /\ UNCHANGED <<generator_vars, request, image, svg, response>>

StartRequests == \E id \in RequestIds : StartRequest(id)

MakeSteps == \E id \in RequestIds : MakeStep(id)

NextConcurrent ==
  \/ StartRequests
  \/ MakeSteps

SpecConcurrent == InitRender /\ [][NextConcurrent]_vars

TypeOK ==
  /\ pc \in Stages
  /\ version \in Versions
  /\ error_correction \in ErrorCorrectionLevel
  /\ module_count \in {0} \cup {version_info[v].size : v \in Versions}

----------------------------------------------------------------------------
(* Properties                                                              *)

Capacity(v, level) == version_info[v].data_capacity[level]

\* C1: after version selection, the version is the smallest one of 1..5
\* whose capacity for the level holds the payload's UTF-8 byte length, it
\* is 5 when no version holds it, no error is raised, and a payload of at
\* most 72 bytes has version 1 at every level.
C1_VersionSelection ==
  pc = "allocate" =>
    LET n == Len(Utf8Encode(data))
        fits == {v \in Versions : n <= Capacity(v, error_correction)}
    IN  /\ raised = "none"
        /\ fits # {} => version \in fits /\ \A w \in fits : version <= w
        /\ fits = {} => version = 5
        /\ n <= 72 => version = 1

\* a multi-byte payload too long for every version at level L was clamped
C1_Witness ==
  /\ pc = "allocate"
  /\ error_correction = "L"
  /\ Len(data) <= Capacity(5, "L")
  /\ Len(Utf8Encode(data)) > Capacity(5, "L")
  /\ version = 5

\* C2: make() on an empty payload fails with the 'no data' error and
\* leaves version, modules and module_count as they were.
C2_EmptyPayloadFails ==
  [][(pc = "idle" /\ data = <<>> /\ pc' # "idle") =>
       /\ pc' = "failed"
       /\ raised' = "ValueError: No data to encode"
       /\ version' = version
       /\ modules' = modules
       /\ module_count' = module_count]_vars

\* the failure happened on a generator that still holds an earlier symbol
C2_Witness ==
  /\ pc = "failed"
  /\ data = <<>>
  /\ module_count = 4 * version + 17
  /\ DOMAIN modules = 0..(module_count - 1)

\* C3: a build of a non-empty payload never fails (no list index leaves
\* the grid: the only failure is the 'no data' error of an empty payload)
\* and "Hello World" at level H ends with version 1 and size 21.
C3_BuildCompletes ==
  /\ pc = "failed" => data = <<>>
  /\ raised # "IndexError"
  /\ pc = "done" /\ data = HelloWorld /\ error_correction = "H"
       => version = 1 /\ module_count = 21

\* a payload longer than the largest capacity of its level was built
C3_Witness ==
  /\ pc = "done"
  /\ Len(Utf8Encode(data)) > Capacity(5, error_correction)
  /\ raised = "none"

\* C4: after a successful make() the grid has module_count rows of
\* module_count columns and module_count is the table size of the version,
\* which is 4*version+17.
C4_GridShape ==
  pc = "done" =>
    /\ DOMAIN modules = 0..(module_count - 1)
    /\ \A r \in DOMAIN modules : DOMAIN modules[r] = 0..(module_count - 1)
    /\ module_count = version_info[version].size
    /\ module_count = 4 * version + 17

C4_Witness ==
  /\ pc = "done"
  /\ version = 5
  /\ Cardinality(DOMAIN modules) = 37
  /\ Cardinality(DOMAIN modules[36]) = 37

\* the ring structure of a finder pattern at offset (r, c) in its 7x7 block
FinderShape(r, c) ==
  IF r \in {0, 6} \/ c \in {0, 6} THEN TRUE
  ELSE IF r \in {1, 5} \/ c \in {1, 5} THEN FALSE
  ELSE TRUE

\* C5: in the finished symbol each of the three 7x7 blocks at (0,0),
\* (size-7,0), (0,size-7) is Dark on its outer ring, Light on the next ring
\* and Dark on its central 3x3.
C5_FinderPatterns ==
  pc = "done" =>
    \A o \in {<<0, 0>>, <<module_count - 7, 0>>, <<0, module_count - 7>>} :
      \A r \in 0..6, c \in 0..6 :
        modules[o[1] + r][o[2] + c] = FinderShape(r, c)

\* a finished symbol carrying data next to the bottom-left finder
C5_Witness ==
  /\ pc = "done"
  /\ version = 3
  /\ modules[module_count - 7][0]
  /\ ~modules[module_count - 6][1]
  /\ modules[module_count - 5][2]
  /\ \E r \in 9..(module_count - 9) : modules[r][1]

\* the three corner regions that the function-module test excludes, each
\* taken relative to its own corner
Neighborhoods(g, mc) ==
  [top_left    |-> [r \in 0..8, c \in 0..8 |-> g[r][c]],
   top_right   |-> [r \in 0..8, c \in 0..7 |-> g[r][mc - 8 + c]],
   bottom_left |-> [r \in 0..7, c \in 0..8 |-> g[mc - 8 + r][c]]]

\* a payload that selects version v at the level: as many one-byte
\* characters as the capacity of v
VersionPayload(v, level) == Payload(Capacity(v, level), "hello")

\* the corner regions of a finished symbol of each version, per level
VersionNeighborhoods ==
  [level \in ErrorCorrectionLevel |->
     [v \in Versions |->
        LET sym == make(VersionPayload(v, level), level)
        IN  Neighborhoods(sym.modules, sym.module_count)]]

\* C6: for a fixed level, the three finder-pattern neighborhoods of a
\* finished symbol, relative to their corners, are those of the finished
\* symbols of every version 1..5.
C6_NeighborhoodsVersionIndependent ==
  pc = "done" =>
    \A v \in Versions :
      Neighborhoods(modules, module_count)
        = VersionNeighborhoods[error_correction][v]

\* the module written by a stage, whatever the grid held: it differs from
\* the input on the all-Dark or on the all-Light grid
ConstGrid(n, b) == [r \in 0..(n - 1) |-> [c \in 0..(n - 1) |-> b]]

TimingRange(mc) == 8..(mc - 9)

\* C7: in the finished symbol (6,i) and (i,6) are Dark exactly when i is
\* even, for 8 <= i <= size-9, and the timing stage writes no module
\* outside that index range.
C7_TimingPatterns ==
  /\ pc = "done" =>
       \A i \in TimingRange(module_count) :
         /\ modules[6][i] = (i % 2 = 0)
         /\ modules[i][6] = (i % 2 = 0)
  /\ pc = "dark_module" =>
       LET onDark  == place_timing_patterns(
                        [m |-> ConstGrid(module_count, TRUE), ok |-> TRUE],
                        module_count).m
           onLight == place_timing_patterns(
                        [m |-> ConstGrid(module_count, FALSE), ok |-> TRUE],
                        module_count).m
       IN  \A r \in 0..(module_count - 1), c \in 0..(module_count - 1) :
             (~onDark[r][c] \/ onLight[r][c])
               => \/ r = 6 /\ c \in TimingRange(module_count)
                  \/ c = 6 /\ r \in TimingRange(module_count)

C7_Witness ==
  /\ pc = "done"
  /\ version = 2
  /\ modules[6][8] /\ ~modules[6][9] /\ modules[6][16]
  /\ modules[8][6] /\ ~modules[9][6] /\ modules[16][6]

IsFunction(r, c) == is_function_module(module_count, version, r, c)

GridCells == (0..(module_count - 1)) \X (0..(module_count - 1))

\* a step that leaves every function module as it was
FunctionModulesKept ==
  \A p \in GridCells :
    IsFunction(p[1], p[2]) => modules'[p[1]][p[2]] = modules[p[1]][p[2]]

\* C8: from format-info stamping to the end of the build, no step (data
\* placement and masking included) changes a module that
\* _is_function_module classifies as function.
C8_FunctionModulesFrozen ==
  [][(/\ pc \in {"encode_data", "error_correction", "place_data", "apply_mask"}
      /\ pc' \in {"error_correction", "place_data", "apply_mask", "done"})
     => FunctionModulesKept]_vars

\* a finished symbol of a version with a dark module, with data placed
C8_Witness ==
  /\ pc = "done"
  /\ version = 4
  /\ modules[4 * version + 9][8]
  /\ \E p \in GridCells : ~IsFunction(p[1], p[2]) /\ modules[p[1]][p[2]]
  /\ \E p \in GridCells : ~IsFunction(p[1], p[2]) /\ ~modules[p[1]][p[2]]

\* the unsigned value of the 8 bits of a stream that start at 0-based
\* index from, read most-significant bit first
ByteRead(bits, from) ==
  128 * bits[from + 1] + 64 * bits[from + 2] + 32 * bits[from + 3]
  + 16 * bits[from + 4] + 8 * bits[from + 5] + 4 * bits[from + 6]
  + 2 * bits[from + 7] + bits[from + 8]

\* C9: the encoder returns exactly 12 + 8n bits for a payload of n bytes:
\* bits 0..3 are 0,1,0,0 and bits 12+8j .. 19+8j are byte j, most-
\* significant bit first.
C9_BitStreamLayout ==
  pc = "error_correction" =>
    LET bytes == Utf8Encode(data)
        n == Len(bytes)
    IN  /\ Len(encoded_data) = 12 + 8 * n
        /\ \A k \in 1..Len(encoded_data) : encoded_data[k] \in {0, 1}
        /\ SubSeq(encoded_data, 1, 4) = <<0, 1, 0, 0>>
        /\ \A j \in 0..(n - 1) :
             ByteRead(encoded_data, 12 + 8 * j) = bytes[j + 1]

\* the stream of a multi-byte payload longer than the largest capacity
C9_Witness ==
  /\ pc = "error_correction"
  /\ Len(data) > 0
  /\ Len(encoded_data) > 12 + 8 * Len(data)
  /\ Len(encoded_data) > 12 + 8 * Capacity(5, error_correction)

\* C10: applying _apply_mask two times in a row leaves every module of the
\* grid as it was.
C10_MaskTwiceIdentity ==
  [][pc' = "masked_twice" => modules' = modules]_vars

\* a finished symbol was masked twice
C10_Witness ==
  /\ pc = "masked_twice"
  /\ version = 5
  /\ error_corrected_data # <<>>
  /\ \E p \in GridCells : ~IsFunction(p[1], p[2]) /\ modules[p[1]][p[2]]
  /\ \E p \in GridCells :
       /\ ~IsFunction(p[1], p[2])
       /\ (p[1] + p[2]) % 2 = 0
       /\ ~modules[p[1]][p[2]]

----------------------------------------------------------------------------
(* Data placement                                                          *)

\* the visits of the placement that has just ended (pc = "apply_mask")
Visits ==
  place_data_visits(module_count, version, Len(error_corrected_data))

\* the log entry of row step i, column c (0 or 1) of sweep k
VisitAt(vs, k, i, c) == vs[(k * module_count + i) * 2 + c + 1]

\* the grid that writing the logged bits in order leaves
ReplayVisits(g, vs, bits) ==
  [r \in DOMAIN g |->
     [c \in DOMAIN g[r] |->
        LET ws == {j \in 1..Len(vs) :
                     vs[j].row = r /\ vs[j].col = c /\ vs[j].bit # -1}
        IN  IF ws = {} THEN g[r][c]
            ELSE LET last == CHOOSE j \in ws : \A j2 \in ws : j2 <= j
                 IN  Truthy(bits[vs[last].bit + 1])]]

\* the log agrees with place_data: replaying it on the grid gives the grid
\* that the placement step leaves
VisitsAgreeStep ==
  pc = "place_data" /\ pc' = "apply_mask" =>
    modules' = ReplayVisits(modules,
                 place_data_visits(module_count, version,
                                   Len(error_corrected_data)),
                 error_corrected_data)

VisitsAgree == [][VisitsAgreeStep]_vars

\* C17: within one column-pair sweep every row step moves to the adjacent
\* row in one and the same vertical direction, and the direction of a
\* sweep is the inverse of the direction of the sweep before it.
C17_ZigzagDirection ==
  pc = "apply_mask" =>
    LET vs == Visits
        Row(k, i) == VisitAt(vs, k, i, 0).row
        Dir(k) == Row(k, 1) - Row(k, 0)
    IN  \A k \in 0..(SweepCount(module_count) - 1) :
          /\ Dir(k) \in {-1, 1}
          /\ \A i \in 0..(module_count - 2) : Row(k, i + 1) - Row(k, i) = Dir(k)
          /\ \A i \in 0..(module_count - 1) :
               VisitAt(vs, k, i, 1).row = Row(k, i)
          /\ k > 0 => Dir(k) = -1 * Dir(k - 1)

\* the two columns of sweep k
SweepPair(vs, k) == {VisitAt(vs, k, 0, 0).col, VisitAt(vs, k, 0, 1).col}

\* C18: the sweeps take disjoint column pairs from column size-1
\* leftwards, column 6 is in no pair, every other column is in exactly one
\* pair, and every non-function module is visited exactly once.
C18_TraversalCoverage ==
  pc = "apply_mask" =>
    LET vs == Visits
        sweeps == 0..(SweepCount(module_count) - 1)
    IN  /\ module_count - 1 \in SweepPair(vs, 0)
        /\ \A k \in sweeps : 6 \notin SweepPair(vs, k)
        /\ \A col \in (0..(module_count - 1)) \ {6} :
             Cardinality({k \in sweeps : col \in SweepPair(vs, k)}) = 1
        /\ \A p \in GridCells :
             ~IsFunction(p[1], p[2]) =>
               Cardinality({j \in 1..Len(vs) :
                              vs[j].row = p[1] /\ vs[j].col = p[2]}) = 1

\* the log entries of the non-function positions, in encounter order
NonFunctionVisits(vs) ==
  SelectSeq(vs, LAMBDA e : ~IsFunction(e.row, e.col))

\* C19: the stream placed is the encoder's output; the k-th non-function
\* position encountered is written with bit k for every k below the stream
\* length; every non-function module encountered after the stream is
\* exhausted is Light when placement ends.
C19_PlacementOrder ==
  pc = "apply_mask" =>
    LET nf == NonFunctionVisits(Visits)
        n == Len(error_corrected_data)
    IN  /\ error_corrected_data = encoded_data
        /\ \A k \in 1..Len(nf) :
             IF k <= n
               THEN nf[k].bit = k - 1
               ELSE ~modules[nf[k].row][nf[k].col]

\* C20: when the payload's byte length is at most the table capacity of
\* the selected version, every bit of the stream is written to a module
\* and that module still holds it when placement ends.
C20_NoBitLost ==
  (pc = "apply_mask"
     /\ Len(Utf8Encode(data)) <= Capacity(version, error_correction)) =>
    LET vs == Visits
    IN  \A k \in 0..(Len(error_corrected_data) - 1) :
          \E j \in 1..Len(vs) :
            /\ vs[j].bit = k
            /\ modules[vs[j].row][vs[j].col]
                 = Truthy(error_corrected_data[k + 1])
            /\ \A j2 \in (j + 1)..Len(vs) :
                 ~(/\ vs[j2].row = vs[j].row
                   /\ vs[j2].col = vs[j].col
                   /\ vs[j2].bit # -1)

----------------------------------------------------------------------------
(* Renderers                                                               *)

\* the shape a drawing call or an SVG element shows
DrawnShape(op) ==
  CASE op \in {"ellipse", "circle"} -> "circle"
    [] op \in {"rounded_rectangle", "rect rx"} -> "rounded"
    [] op \in {"rectangle", "rect"} -> "square"
    [] OTHER -> "none"

\* the (row, col, shape) triples of a result, in drawing order
Triples(result) ==
  [i \in 1..Len(result.draws) |->
     <<result.draws[i].row, result.draws[i].col,
       DrawnShape(result.draws[i].op)>>]

DarkModules == {p \in GridCells : modules[p[1]][p[2]]}

\* the triples are in row-major order, without repetition
RowMajor(ts) ==
  \A i \in 1..(Len(ts) - 1) :
    ts[i][1] * module_count + ts[i][2]
      < ts[i + 1][1] * module_count + ts[i + 1][2]

\* C11: for the same finished symbol and the same shapes, create_qr_image
\* and create_qr_svg draw the same (row, col, shape) triples in the same
\* row-major order, and no triple is at a Light module.
C11_RenderersAgree ==
  (image # Unset /\ svg # Unset) =>
    /\ ~image.raised /\ ~svg.raised
    /\ Triples(image) = Triples(svg)
    /\ RowMajor(Triples(image))
    /\ \A i \in 1..Len(image.draws) :
         modules[image.draws[i].row][image.draws[i].col]
    /\ \A i \in 1..Len(svg.draws) :
         modules[svg.draws[i].row][svg.draws[i].col]

\* both renderers have drawn a version 5 symbol, circles on the finders
\* and rounded dots elsewhere
C11_Witness ==
  /\ image # Unset /\ svg # Unset
  /\ version = 5
  /\ request.marker_shape = "circle" /\ request.dot_shape = "rounded"
  /\ \E i \in 1..Len(svg.draws) : svg.draws[i].op = "rect rx"
  /\ \E i \in 1..Len(image.draws) : image.draws[i].op = "ellipse"

\* the three 7x7 finder footprints
FinderFootprint(r, c) ==
  \/ r < 7 /\ c < 7
  \/ r < 7 /\ c >= module_count - 7
  \/ r >= module_count - 7 /\ c < 7

\* a result shows every Dark module, in shape M on the footprints and in
\* shape D elsewhere
ShapesSelected(result, M, D) ==
  LET ts == Triples(result)
  IN  /\ {<<ts[i][1], ts[i][2]>> : i \in 1..Len(ts)} = DarkModules
      /\ \A i \in 1..Len(ts) :
           ts[i][3] = IF FinderFootprint(ts[i][1], ts[i][2]) THEN M ELSE D

\* C12: for marker shape M and dot shape D among square, circle, rounded,
\* every Dark module inside one of the three 7x7 finder footprints is
\* drawn with M and every other Dark module with D, by both renderers.
C12_ShapeSelection ==
  (/\ request # Unset
   /\ request.marker_shape \in Shapes
   /\ request.dot_shape \in Shapes) =>
    /\ image # Unset =>
         /\ ~image.raised
         /\ ShapesSelected(image, request.marker_shape, request.dot_shape)
    /\ svg # Unset =>
         /\ ~svg.raised
         /\ ShapesSelected(svg, request.marker_shape, request.dot_shape)

\* marker circle, dot square: circles on the footprints of both results,
\* squares outside
C12_Witness ==
  /\ image # Unset /\ svg # Unset
  /\ request.marker_shape = "circle" /\ request.dot_shape = "square"
  /\ \E i \in 1..Len(image.draws) :
       /\ image.draws[i].op = "ellipse"
       /\ FinderFootprint(image.draws[i].row, image.draws[i].col)
  /\ \E i \in 1..Len(svg.draws) :
       /\ svg.draws[i].op = "rect"
       /\ ~FinderFootprint(svg.draws[i].row, svg.draws[i].col)

\* every drawing of a result has the fill colour
FilledWith(result, color) ==
  /\ ~result.raised
  /\ \A i \in 1..Len(result.draws) : result.draws[i].fill = color

\* C13: when the colour string is not parseable both renderers draw every
\* module in #000000 and return normally; a parseable colour is the fill
\* colour, unchanged.
C13_ColourFallback ==
  request # Unset =>
    LET expected == IF request.color \in PilColors
                      THEN request.color ELSE "#000000"
    IN  /\ image # Unset => FilledWith(image, expected)
        /\ svg # Unset => FilledWith(svg, expected)

\* both renderers were given "invalid-color" and drew in black
C13_Witness ==
  /\ image # Unset /\ svg # Unset
  /\ request.color = "invalid-color"
  /\ Len(image.draws) > 0 /\ image.draws[1].fill = "#000000"
  /\ Len(svg.draws) > 0 /\ svg.draws[1].fill = "#000000"

\* C14: when the logo data cannot be decoded, or a later logo step (open,
\* resize, paste) fails, create_qr_image returns an image, equal to the
\* image it returns for the same arguments without a logo; no exception
\* leaves it.
C14_MalformedLogoOmitted ==
  (/\ image # Unset
   /\ request.logo_base64.text = "data"
   /\ request.logo_base64.fails # "none") =>
    /\ ~image.raised
    /\ image = create_qr_image(modules, module_count, request.color,
                               request.marker_shape, request.dot_shape,
                               NoLogo, request.logo_size)

\* an image returned for a logo whose resize step fails
C14_Witness ==
  /\ image # Unset
  /\ request.logo_base64.text = "data"
  /\ request.logo_base64.fails = "resize"
  /\ ~image.raised
  /\ ~image.logo.pasted

----------------------------------------------------------------------------
(* Service                                                                 *)

\* the renderer result a response carries
Rendered == response.content

\* C15: a request whose marker or dot shape is not one of square, circle,
\* rounded is answered with status 200, 400 or 422, never 500, and the
\* result shows the modules of the unknown shape as squares (both
\* endpoints, so both renderers).
C15_UnknownShape ==
  (/\ response # Unset
   /\ request.marker_shape \notin Shapes \/ request.dot_shape \notin Shapes) =>
    /\ response.status_code \in {200, 400, 422}
    /\ response.status_code = 200 =>
         ShapesSelected(Rendered,
                        IF request.marker_shape \in Shapes
                          THEN request.marker_shape ELSE "square",
                        IF request.dot_shape \in Shapes
                          THEN request.dot_shape ELSE "square")

\* an SVG response to a request with an unknown marker shape and circles
\* as dots: rect elements on the finder footprints
C15_Witness ==
  /\ response # Unset
  /\ request.endpoint = "/qr-code-svg"
  /\ request.marker_shape = "invalid-shape"
  /\ request.dot_shape = "circle"
  /\ response.status_code = 200
  /\ \E i \in 1..Len(Rendered.draws) :
       /\ Rendered.draws[i].op = "rect"
       /\ FinderFootprint(Rendered.draws[i].row, Rendered.draws[i].col)

\* C16: every request to the two endpoints, the one with all contact
\* fields empty included, hands a non-empty payload to the generator; the
\* "No data to encode" failure is not raised and the response is a success
\* that carries the image and the contact text.
C16_EmptyFormSucceeds ==
  response # Unset =>
    /\ Len(data) > 0
    /\ raised # "ValueError: No data to encode"
    /\ pc = "done"
    /\ response.status_code = 200
    /\ response.body = IF request.endpoint = "/qr-code"
                         THEN "qr_image_base64" ELSE "svg_content"
    /\ ~response.content.raised
    /\ response.vcard_content = data

\* the response to the request with every contact field empty
C16_Witness ==
  /\ response # Unset
  /\ request.name = <<>> /\ request.phone = <<>> /\ request.email = <<>>
  /\ request.company = <<>> /\ request.title = <<>>
  /\ request.url_work = <<>> /\ request.url_home = <<>>
  /\ response.status_code = 200
  /\ Len(response.vcard_content) > 0
  /\ Len(response.content.draws) > 0

----------------------------------------------------------------------------
(* Encoding, masking, stage order                                          *)

\* C21: for every payload the build accepts, bits 4..11 of the encoded
\* stream, read as an unsigned integer most-significant bit first, are the
\* payload's byte length.
C21_CountField ==
  pc \in {"error_correction", "place_data", "apply_mask", "done"} =>
    ByteRead(encoded_data, 4) = Len(Utf8Encode(data))

\* a masking step that toggles the non-function modules of even row+col
\* and keeps those of odd row+col
MaskTransformed ==
  \A p \in GridCells :
    ~IsFunction(p[1], p[2]) =>
      modules'[p[1]][p[2]] = IF (p[1] + p[2]) % 2 = 0
                               THEN ~modules[p[1]][p[2]]
                               ELSE modules[p[1]][p[2]]

\* C22: after _apply_mask every non-function module with row+col even
\* holds the opposite of its state after placement, and every non-function
\* module with row+col odd holds that state unchanged.
C22_MaskTransform ==
  [][(pc = "apply_mask" /\ pc' = "done") => MaskTransformed]_vars

\* a finished version 1 symbol: modules (10, 0) and (9, 0), which placement
\* leaves Light, are Dark and Light after masking, and a placed Dark bit
\* with row+col odd is still Dark
C22_Witness ==
  /\ pc = "done"
  /\ version = 1
  /\ ~IsFunction(10, 0) /\ modules[10][0]
  /\ ~IsFunction(9, 0) /\ ~modules[9][0]
  /\ ~IsFunction(19, 20) /\ modules[19][20]

\* the stages in the order of the claim, then the finished build
StageOrder ==
  <<"optimize_version", "allocate", "finder_patterns", "separators",
    "timing_patterns", "dark_module", "format_info", "encode_data",
    "error_correction", "place_data", "apply_mask", "done">>

\* a step of the position: make() enters the first stage (or fails), a
\* stage hands over to the next one of the order (or fails), add_data
\* prepares the next build
StageSuccessor(from, to) ==
  \/ from = "idle" /\ to \in {StageOrder[1], "failed"}
  \/ \E i \in 1..(Len(StageOrder) - 1) :
       from = StageOrder[i] /\ to \in {StageOrder[i + 1], "failed"}
  \/ from \in {"done", "failed"} /\ to = "idle"

StageOrderStep ==
  /\ pc' # pc => StageSuccessor(pc, pc')
  /\ (image' # image \/ svg' # svg) =>
       pc = "done" /\ pc' = "done" /\ modules' = modules
  /\ (pc = "apply_mask" /\ pc' = "done") =>
       LET qr == make(data, error_correction)
       IN  /\ version' = qr.version
           /\ module_count' = qr.module_count
           /\ modules' = qr.modules

\* C23: in every successful build the stages run once each in the order
\* version selection, allocation, finder patterns, separators, timing
\* patterns, dark module, format info, encoding, error correction, data
\* placement, masking; masking is not skipped (the finished grid is the
\* composition of the stages in that order) and a renderer reads the grid
\* only after masking.
C23_StageOrder == [][StageOrderStep]_vars

\* both renderers have read the finished symbol of a version 2 build
C23_Witness ==
  /\ pc = "done"
  /\ version = 2
  /\ raised = "none"
  /\ image # Unset /\ svg # Unset
  /\ modules[10][0]

----------------------------------------------------------------------------
(* Format information                                                      *)

\* the writes of the format stamping of the current grid size
FormatWrites == place_format_info_writes(module_count)

\* the log agrees with place_format_info: writing the logged bits of the
\* format value in order gives the grid that the stamping step leaves
FormatWritesAgreeStep ==
  (pc = "format_info" /\ pc' = "encode_data") =>
    LET ws == FormatWrites
        Last(r, c) ==
          CHOOSE j \in 1..Len(ws) :
            /\ ws[j].row = r /\ ws[j].col = c
            /\ \A j2 \in (j + 1)..Len(ws) : ~(ws[j2].row = r /\ ws[j2].col = c)
    IN  \A p \in GridCells :
          modules'[p[1]][p[2]] =
            IF \E j \in 1..Len(ws) : ws[j].row = p[1] /\ ws[j].col = p[2]
              THEN Truthy(BitAt(generate_format_info(error_correction),
                                ws[Last(p[1], p[2])].i))
              ELSE modules[p[1]][p[2]]

FormatWritesAgree == [][FormatWritesAgreeStep]_vars

\* the mirrored group: column 8 near the bottom-left finder, or row 8 near
\* the top-right finder
MirrorModule(r, c) ==
  \/ c = 8 /\ r >= module_count - 8 /\ r < module_count
  \/ r = 8 /\ c >= module_count - 8 /\ c < module_count

\* the top-left group: row 8 or column 8 beside the top-left finder
TopLeftModule(r, c) ==
  \/ r = 8 /\ c \in 0..8
  \/ c = 8 /\ r \in 0..8

\* C24: each of the 15 format bit indices is written to one module of the
\* top-left group and to one in-bounds module of the mirrored group, and no
\* module receives two different bit indices.
C24_FormatPlacement ==
  pc = "encode_data" =>
    LET ws == FormatWrites
    IN  /\ \A i \in 0..14 :
             /\ Cardinality({j \in 1..Len(ws) :
                               /\ ws[j].i = i
                               /\ TopLeftModule(ws[j].row, ws[j].col)}) = 1
             /\ Cardinality({j \in 1..Len(ws) :
                               /\ ws[j].i = i
                               /\ MirrorModule(ws[j].row, ws[j].col)}) = 1
        /\ \A j, k \in 1..Len(ws) :
             (ws[j].row = ws[k].row /\ ws[j].col = ws[k].col)
               => ws[j].i = ws[k].i

\* the value read back from the modules of the top-left group: bit i is the
\* module that the first write of iteration i targets
RECURSIVE StampedValue(_, _)
StampedValue(ws, k) ==
  IF k = 0 THEN 0
  ELSE StampedValue(ws, k - 1)
       + IF ws[k].group = "top_left" /\ modules[ws[k].row][ws[k].col]
           THEN 2 ^ ws[k].i ELSE 0

\* the 2-bit code of a correction level
LevelCode(level) ==
  CASE level = "L" -> 1 [] level = "M" -> 0 [] level = "Q" -> 3 [] level = "H" -> 2

\* C25: for every correction level the stamped format value has the
\* level's 2-bit code (L=01, M=00, Q=11, H=10) in bits 3..4, mask id 0 in
\* bits 0..2 and zero in all higher bits; it is the value
\* _generate_format_info returns.
C25_FormatValue ==
  pc \in {"encode_data", "error_correction", "place_data", "apply_mask",
          "done"} =>
    LET value == StampedValue(FormatWrites, Len(FormatWrites))
    IN  /\ value = generate_format_info(error_correction)
        /\ (value \div 8) % 4 = LevelCode(error_correction)
        /\ value % 8 = 0
        /\ value \div 32 = 0

\* a finished symbol of level Q: format bits 3 and 4 are Dark at (8, 3) and
\* (8, 4), bits 2 and 5 Light
C25_Witness ==
  /\ pc = "done"
  /\ error_correction = "Q"
  /\ modules[8][3] /\ modules[8][4]
  /\ ~modules[8][2] /\ ~modules[8][5]

----------------------------------------------------------------------------
(* Separators and dark module                                              *)

\* the one-module border of the three finder patterns, inside the 8x8
\* finder neighborhoods
SeparatorModules ==
  LET n == module_count
  IN  {<<7, c>> : c \in 0..7} \cup {<<r, 7>> : r \in 0..7}
      \cup {<<7, c>> : c \in (n - 8)..(n - 1)} \cup {<<r, n - 8>> : r \in 0..7}
      \cup {<<n - 8, c>> : c \in 0..7} \cup {<<r, 7>> : r \in (n - 8)..(n - 1)}

\* C26: in the finished symbol every module of the border around each
\* finder pattern (row 7 and column 7 at the top-left, row 7 and column
\* size-8 at the top-right, row size-8 and column 7 at the bottom-left) is
\* Light.
C26_SeparatorsLight ==
  pc = "done" => \A p \in SeparatorModules : ~modules[p[1]][p[2]]

\* a finished version 5 symbol of level Q: the borders are Light between
\* the Dark finder edges and the Dark format and timing modules beside them
C26_Witness ==
  /\ pc = "done"
  /\ version = 5
  /\ error_correction = "Q"
  /\ Cardinality(SeparatorModules) = 45
  /\ modules[6][6] /\ ~modules[7][7] /\ modules[8][8 - 4]
  /\ modules[6][module_count - 7] /\ ~modules[6][module_count - 8]
  /\ modules[module_count - 7][6] /\ ~modules[module_count - 8][6]

\* C27: for every version 2..5 module (4*version+9, 8) is Dark in the
\* finished symbol, and it is Dark at every point of the build from its
\* stamping on: format info, data placement and masking leave it alone.
C27_DarkModule ==
  (/\ pc \in {"format_info", "encode_data", "error_correction", "place_data",
              "apply_mask", "done"}
   /\ version \in 2..5) =>
    /\ module_count > 21
    /\ modules[4 * version + 9][8]

\* a finished version 5 symbol with its dark module at (29, 8), separate
\* from the mirrored format modules below it
C27_Witness ==
  /\ pc = "done"
  /\ version = 5
  /\ 4 * version + 9 = module_count - 8
  /\ modules[29][8]
  /\ ~modules[30][8]

----------------------------------------------------------------------------
(* Concurrent requests                                                     *)

\* C28: when the builds of two requests are interleaved in any order at
\* stage granularity, each build works on its own payload and finishes
\* with the version and the grid that make() produces for that payload
\* alone; no build fails.
C28_RequestIndependence ==
  \A id \in RequestIds :
    builds[id].started =>
      /\ builds[id].qr.data = builds[id].vcard_content
      /\ builds[id].qr.pc # "failed"
      /\ builds[id].qr.pc = "done" =>
           LET alone == make(builds[id].vcard_content, "H")
           IN  /\ builds[id].qr.version = alone.version
               /\ builds[id].qr.module_count = alone.module_count
               /\ builds[id].qr.modules = alone.modules

\* two requests with different payloads; the build of the second was
\* started, and is half-way, after the first got as far as its placement,
\* which it has finished since
C28_Witness ==
  /\ builds[1].started /\ builds[2].started
  /\ builds[1].qr.pc = "done"
  /\ builds[2].qr.pc = "place_data"
  /\ builds[1].qr.version = 3 /\ builds[2].qr.version = 2
  /\ builds[1].vcard_content # builds[2].vcard_content

====
